---- MODULE Spec2Model ----
(***************************************************************************)
(* Model of the incremental sync engine of bigquery-syncer (src/etl):      *)
(* run_once / _run_mapping / backfill (main.py), MySQLExtractor and its    *)
(* retries (extract.py), BigQueryLoader.load_append / load_upsert          *)
(* (load.py), StateStore.get_last_sync / set_last_sync (state.py), the     *)
(* schema reconciliation (schema.py), the transforms (transform.py) and    *)
(* RunReport (report.py).                                                  *)
(*                                                                         *)
(* Spec follows whole runs of run_once.  SpecRetry follows one decorated   *)
(* extractor call attempt by attempt, SpecReconcile the reconciliation of  *)
(* one _run_mapping call step by step, SpecUpsert two overlapping          *)
(* load_upsert executions, SpecState two overlapping set_last_sync calls,  *)
(* and SpecBackfill the backfill command.                                  *)
(*                                                                         *)
(* The incremental column is a DATETIME column: its values are the         *)
(* instants 1..MaxVal counted from the epoch, which is 0.  A value of a    *)
(* row is tagged with its Python type: <<"int", n>>, <<"dt", n>> (a naive  *)
(* datetime), <<"text", s>> (a str) or <<"none">>.  The text of a          *)
(* watermark is the sequence of the decimal digits of its instant; the     *)
(* absent watermark (None) and the empty string, both falsy at             *)
(* main.py:69-70, are the empty sequence.  A row is a function from        *)
(* column names to values.                                                 *)
(***************************************************************************)
EXTENDS Integers, Sequences, FiniteSets, TLC

\* ---------------------------------------------------------------- bounds
MaxVal == 2
MaxRows == 3
MaxRuns == 2
MaxBatch == 2
MaxFaults == 1
MaxFields == 2
MaxBackfills == 1

\* ---------------------------------------------------------------- config
\* The configuration document of one deployment: two mappings of the same
\* source table, one appended to a history table and one upserted into a
\* current table, processed in this order by run_once
\* (cfg.get("mappings", [])).
Mappings ==
  << [name |-> "m1", mode |-> "append", mysql_table |-> "s",
      bigquery_table |-> "t1", primary_keys |-> << >>,
      backfill_start |-> << >>],
     [name |-> "m2", mode |-> "upsert", mysql_table |-> "s",
      bigquery_table |-> "t2", primary_keys |-> <<"id">>,
      backfill_start |-> <<1>>] >>

MapIds == DOMAIN Mappings

\* The column that orders the extraction (mapping["incremental_column"]).
incremental_column == "val"

\* What fetch_columns returns for the source tables: the column names.
Columns == <<"id", "val">>

\* None / the empty string.
NoValue == << >>

\* The values of a row, by Python type.
IntV(n) == << "int", n >>
DtV(n) == << "dt", n >>
TextV(s) == << "text", s >>
IsoV(n) == << "iso", n >>
NoneV == << "none" >>

\* os.getpid() of the process that runs the syncer.
Pid == "pid1"

VARIABLES
  source,       \* the source table: row id -> value of the incremental column
  wm,           \* the watermark document: data["last_sync"], by mapping
  dest,         \* per mapping: the rows of the destination table
  staging,      \* the staging tables that exist in the dataset
  batch_size,   \* the page size handed to fetch_incremental
  runs,         \* number of run_once calls started
  cur,          \* the mapping the loop of run_once is at
  pc,           \* position inside _run_mapping / run_once
  next_start,   \* _run_mapping's next_start: <<"text", s>> or <<"dt", n>>
  all_records,  \* per mapping: _run_mapping's all_records of this run
  pages,        \* per mapping: the sizes of the pages fetched in this run
  loaded,       \* the value the load call returned
  reports,      \* run_once's reports list
  stage,        \* per mapping: outcome of its _run_mapping call in this run
  attempts,     \* the mappings run_once has called _run_mapping for, in order
  wm_start,     \* the watermark document when the run started
  dest_start,   \* the destination tables when the run started
  load_outcome, \* per mapping: how the load call of this run ended
  faults        \* number of calls that have raised so far

\* One call of a MySQLExtractor method under its @retry decorator.
VARIABLES
  method,         \* the decorated method called, with its operator argument
  attempt_number, \* tenacity's attempt_number: the attempt being made
  raised_log,     \* the exception each attempt so far has raised
  call_state,     \* "attempt", "sleep", "returned" or "raised"
  call_result,    \* what the caller got: a value or an exception
  caller_state    \* _run_mapping, the caller: "running", "on" or "failed"

\* Lines 50-65 and 92-105 of one _run_mapping call: the destination schema
\* is reconciled with the source columns, and the rows are shaped for the
\* loader.
VARIABLES
  mysql_columns,          \* what fetch_columns returned: <<name, type>> pairs
  table_exists,           \* the destination table exists in the dataset
  bq_schema,              \* the schema of the destination table
  allow_schema_additions, \* global_cfg.get("allow_schema_additions", False)
  diff,                   \* _run_mapping's diff
  handed,                 \* the rows passed to the load call
  rec_pc,                 \* position in _run_mapping
  rec_failed,             \* the call that raised, or "none"
  schema_start            \* the schema when _run_mapping was called

\* Two executions of load_upsert on the destination table of one mapping.
VARIABLES
  target,        \* the rows of the destination table
  temp_tables,   \* the staging tables that exist: name -> rows
  upsert_keys,  \* mapping["primary_keys"]
  ex_pid,        \* per execution: os.getpid() of its process
  ex_rows,       \* per execution: the rows argument
  ex_pc,         \* per execution: the statement of load_upsert it is at
  merged,        \* per execution: the staging rows its MERGE read
  target_start   \* the destination table before the executions

\* Two callers of StateStore.set_last_sync on the same document (wm).
VARIABLES
  st_pc,      \* per caller: "called", "loaded" (after load) or "saved"
  st_data,    \* per caller: set_last_sync's local data
  st_value,   \* per caller: the iso_timestamp argument
  st_events   \* the loads and saves done, in order

\* Calls of backfill (the backfill command), between the runs.
VARIABLES
  bf,        \* the last backfill call: its arguments and what it did
  bf_count   \* number of backfill calls made

mainVars == << source, wm, dest, staging, batch_size, runs, cur, pc, next_start,
               all_records, pages, loaded, reports, stage, attempts, wm_start,
               dest_start, load_outcome, faults >>

retryVars == << method, attempt_number, raised_log, call_state, call_result,
                caller_state >>

reconcileVars == << mysql_columns, table_exists, bq_schema,
                   allow_schema_additions, diff, handed, rec_pc, rec_failed,
                   schema_start >>

upsertVars == << target, temp_tables, upsert_keys, ex_pid, ex_rows, ex_pc,
                merged, target_start >>

stateVars == << st_pc, st_data, st_value, st_events >>

\* The variables of a run other than the watermark document.
runVars == << source, dest, staging, batch_size, runs, cur, pc, next_start,
              all_records, pages, loaded, reports, stage, attempts,
              dest_start, load_outcome, faults >>

backfillVars == << bf, bf_count >>

vars == << mainVars, retryVars, reconcileVars, upsertVars, stateVars,
           backfillVars >>

\* What the actions of one part of the program leave alone.
auxVars == << retryVars, reconcileVars, upsertVars, stateVars, backfillVars >>

exceptRetry == << mainVars, reconcileVars, upsertVars, stateVars,
                   backfillVars >>

exceptReconcile == << mainVars, retryVars, upsertVars, stateVars,
                   backfillVars >>

exceptUpsert == << mainVars, retryVars, reconcileVars, stateVars,
                   backfillVars >>

exceptBackfill == << retryVars, reconcileVars, upsertVars, stateVars >>

exceptState == << runVars, retryVars, reconcileVars, upsertVars,
                   backfillVars >>

\* ------------------------------------------------------------- helpers
Range(s) == { s[j] : j \in DOMAIN s }

Last(s) == s[Len(s)]

Min(a, b) == IF a < b THEN a ELSE b

\* str(n): the decimal digits of n.
RECURSIVE Str(_)
Str(n) == IF n < 10 THEN << n >> ELSE Str(n \div 10) \o << n % 10 >>

\* The number MySQL reads from a string parameter that is compared with a
\* numeric or temporal column.
RECURSIVE Num(_)
Num(s) == IF s = << >> THEN 0
          ELSE Num(SubSeq(s, 1, Len(s) - 1)) * 10 + s[Len(s)]

\* The default lower bound "1970-01-01T00:00:00Z": the epoch.
Epoch == Str(0)

\* The value of a query parameter, as the server compares it with the
\* incremental column: the text of a watermark is parsed, a datetime taken
\* from a fetched row is itself.
ParamValue(p) == IF p[1] = "text" THEN Num(p[2]) ELSE p[2]

\* The dictionary row the cursor returns for source row id.
Row(src, id) ==
  [c \in Range(Columns) |-> IF c = "id" THEN IntV(id) ELSE DtV(src[id])]

\* ORDER BY `incremental_column` ASC; rows of equal value come in the order
\* of their ids (the order of the primary key; either order of a tie gives
\* the pages the same values).
Before(src, a, b) == src[a] < src[b] \/ (src[a] = src[b] /\ a < b)

\* MySQLExtractor.fetch_incremental, a call that returns. end_value is
\* <<"none">> or a parameter.
fetch_incremental(src, start_value, end_value, limit, operator) ==
  LET lower(id) == IF operator = ">=" THEN src[id] >= ParamValue(start_value)
                   ELSE src[id] > ParamValue(start_value)
      upper(id) == IF end_value = NoneV THEN TRUE
                   ELSE IF operator = ">=" THEN src[id] <= ParamValue(end_value)
                   ELSE src[id] < ParamValue(end_value)
      E == { id \in DOMAIN src : lower(id) /\ upper(id) }
      n == Min(limit, Cardinality(E))
      rank(id) == Cardinality({ j \in E : Before(src, j, id) }) + 1
  IN [k \in 1..n |-> Row(src, CHOOSE id \in E : rank(id) = k)]

\* ----------------------------------------------------------- transform
\* cast_nulls: a field equal to the empty string becomes None.
cast_nulls(records) ==
  [j \in DOMAIN records |->
     [k \in DOMAIN records[j] |->
        IF records[j][k] = TextV(<< >>) THEN NoneV ELSE records[j][k]]]

\* normalize_timestamps with tz = "UTC" (the default_timezone of the
\* configuration): a datetime becomes its ISO-8601 text in UTC.
normalize_timestamps(records) ==
  IF records = << >> THEN << >>
  ELSE [j \in DOMAIN records |->
          [k \in DOMAIN records[j] |->
             IF records[j][k][1] = "dt" THEN IsoV(records[j][k][2])
             ELSE records[j][k]]]

\* align_columns: exactly the given columns, absent ones filled with None.
align_columns(records, columns) ==
  IF records = << >> THEN << >>
  ELSE [j \in DOMAIN records |->
          [c \in Range(columns) |->
             IF c \in DOMAIN records[j] THEN records[j][c] ELSE NoneV]]

\* Lines 93-97 of _run_mapping.
Transform(records) ==
  align_columns(normalize_timestamps(cast_nulls(records)), Columns)

\* ---------------------------------------------------------------- load
\* f"_{table}_staging_{os.getpid()}"
StagingName(table) == << table, Pid >>

\* BigQueryLoader.load_append, a call whose load job succeeds:
\* the rows are appended to the table.
load_append(T, rows) == T \o rows

\* ON T.k = S.k AND ... over the primary keys.
OnClause(t, s, primary_keys) == \A k \in Range(primary_keys) : t[k] = s[k]

\* The MERGE statement cannot run: no primary key gives an empty ON clause,
\* and a target row matched by more than one staging row is an error.
MergeError(T, S, primary_keys) ==
  \/ primary_keys = << >>
  \/ \E j \in DOMAIN T :
       Cardinality({ k \in DOMAIN S : OnClause(T[j], S[k], primary_keys) }) > 1

\* A MERGE whose ON clause never matches: every staging row is inserted.
MergeInsertOnly(T, S, primary_keys) == T \o S

\* The table after the MERGE built at load.py:71-96.
Merge(T, S, primary_keys) ==
  LET all_cols == DOMAIN S[1]
      non_keys == all_cols \ Range(primary_keys)
      hit(t) == { k \in DOMAIN S : OnClause(t, S[k], primary_keys) }
      upd(t) == IF non_keys # {} /\ hit(t) # {}
                THEN LET s == S[CHOOSE k \in hit(t) : TRUE]
                     IN [c \in DOMAIN t |-> IF c \in non_keys THEN s[c] ELSE t[c]]
                ELSE t
      unmatched(s) == \A j \in DOMAIN T : ~OnClause(T[j], s, primary_keys)
  IN [j \in DOMAIN T |-> upd(T[j])] \o SelectSeq(S, unmatched)

\* The points at which a call of load_upsert can end.
UpsertOutcomes ==
  { "ok", "ensure_table", "delete_table", "create_table", "load_job",
    "merge", "cleanup" }

\* BigQueryLoader.load_upsert ending at `out`: the table, the staging
\* tables, whether it raised, and what it returned.
load_upsert(T, stg, table, rows, primary_keys, out) ==
  LET tmp == StagingName(table)
  IN IF rows = << >>
     THEN [dest |-> T, staging |-> stg, raised |-> FALSE, ret |-> 0]
     ELSE CASE out \in {"ensure_table", "delete_table"} ->
                 [dest |-> T, staging |-> stg, raised |-> TRUE, ret |-> 0]
            [] out = "create_table" ->
                 [dest |-> T, staging |-> stg \ {tmp}, raised |-> TRUE, ret |-> 0]
            [] out \in {"load_job", "merge"} ->
                 [dest |-> T, staging |-> stg \cup {tmp}, raised |-> TRUE,
                  ret |-> 0]
            [] out = "cleanup" ->
                 [dest |-> Merge(T, rows, primary_keys),
                  staging |-> stg \cup {tmp}, raised |-> TRUE, ret |-> 0]
            [] out = "ok" ->
                 [dest |-> Merge(T, rows, primary_keys),
                  staging |-> stg \ {tmp}, raised |-> FALSE,
                  ret |-> Len(rows)]

\* The outcomes the call can have on these arguments.
UpsertCanEnd(T, rows, primary_keys, out) ==
  out \in {"ok", "cleanup"} => ~MergeError(T, rows, primary_keys)

\* --------------------------------------------------------------- state
Names == { Mappings[i].name : i \in MapIds }

\* StateStore.get_last_sync: data.get("last_sync", {}).get(mapping_name).
get_last_sync(doc, mapping_name) == doc[mapping_name]

\* A set_last_sync that writes a document with its own entry only.
SetLastSyncAlone(doc, mapping_name, iso_timestamp) ==
  [n \in Names |-> IF n = mapping_name THEN iso_timestamp ELSE NoValue]

\* StateStore.set_last_sync: load the document, set the one key, save it.
set_last_sync(doc, mapping_name, iso_timestamp) ==
  [doc EXCEPT ![mapping_name] = iso_timestamp]

\* Lines 69-71 of _run_mapping: the stored watermark, else backfill_start,
\* else the epoch.
LastSync(doc, mapping) ==
  LET stored == get_last_sync(doc, mapping.name)
      first == IF stored # NoValue THEN stored ELSE mapping.backfill_start
  IN IF first # NoValue THEN first ELSE Epoch

\* ------------------------------------------------------------ run_once
\* RunReport(mapping_name, mode) with its defaults, records_processed set.
RunReport(mapping, records_processed) ==
  [mapping_name |-> mapping.name, mode |-> mapping.mode,
   records_processed |-> records_processed, errors |-> << >>]

\* run_once without the try around _run_mapping: the exception of one
\* mapping leaves the loop.
LoopNextAbort(i, raised) ==
  IF i < Len(Mappings) /\ ~raised THEN [cur |-> i + 1, pc |-> "prepare"]
  ELSE [cur |-> i, pc |-> "returned"]

\* The for loop of run_once after _run_mapping returned or raised for
\* mapping i: the next mapping, or after the last one write_daily_report
\* (whose failure is only logged) and the return of reports.
LoopNext(i, raised) ==
  IF i < Len(Mappings) THEN [cur |-> i + 1, pc |-> "prepare"]
  ELSE [cur |-> i, pc |-> "returned"]

\* What run_once appends to reports when _run_mapping returned `report`
\* (raised = FALSE) or raised (the except clause only logs).
Collect(reps, report, raised) ==
  IF raised THEN reps ELSE Append(reps, report)

\* _run_mapping ends for the current mapping: it returned a report, or it
\* raised at `result`.
Leave(result, records_processed) ==
  LET nxt == LoopNext(cur, result # "ok")
  IN /\ stage' = [stage EXCEPT ![cur] = result]
     /\ result # "ok" => faults < MaxFaults
     /\ faults' = IF result # "ok" THEN faults + 1 ELSE faults
     /\ reports' = Collect(reports, RunReport(Mappings[cur], records_processed),
                           result # "ok")
     /\ cur' = nxt.cur
     /\ pc' = nxt.pc
     /\ attempts' = IF nxt.pc = "prepare" THEN Append(attempts, nxt.cur)
                    ELSE attempts
     /\ next_start' = TextV(NoValue)
     /\ loaded' = 0

TypeOK ==
  /\ source \in Seq(1..MaxVal)
  /\ wm \in [Names -> Seq(0..9)]
  /\ staging \subseteq { StagingName(Mappings[i].bigquery_table) : i \in MapIds }
  /\ batch_size \in 1..MaxBatch
  /\ runs \in 0..MaxRuns
  /\ cur \in MapIds
  /\ pc \in { "idle", "prepare", "paginate", "load", "advance",
              "returned" }
  /\ loaded \in 0..MaxRows
  /\ faults \in 0..MaxFaults

\* run_once at rest, no row in any table, for a watermark document wm.
InitRun ==
  /\ source = << >>
  /\ dest = [i \in MapIds |-> << >>]
  /\ staging = {}
  /\ batch_size \in 1..MaxBatch
  /\ runs = 0
  /\ cur = 1
  /\ pc = "idle"
  /\ next_start = TextV(NoValue)
  /\ all_records = [i \in MapIds |-> << >>]
  /\ pages = [i \in MapIds |-> << >>]
  /\ loaded = 0
  /\ reports = << >>
  /\ stage = [i \in MapIds |-> "pending"]
  /\ attempts = << >>
  /\ wm_start = wm
  /\ dest_start = dest
  /\ load_outcome = [i \in MapIds |-> "none"]
  /\ faults = 0

\* A new deployment: the watermark document has no watermark.
InitMain ==
  /\ wm = [n \in Names |-> NoValue]
  /\ InitRun

\* No call of a decorated extractor method is followed.
RetryIdle ==
  /\ method = [name |-> "none", operator |-> ">"]
  /\ attempt_number = 0
  /\ raised_log = << >>
  /\ call_state = "idle"
  /\ call_result = << "nothing" >>
  /\ caller_state = "idle"

\* No reconciliation is followed.
ReconcileIdle ==
  /\ mysql_columns = << >>
  /\ table_exists = FALSE
  /\ bq_schema = << >>
  /\ allow_schema_additions = FALSE
  /\ diff = [missing |-> << >>, type_mismatches |-> << >>]
  /\ handed = << >>
  /\ rec_pc = "idle"
  /\ rec_failed = "none"
  /\ schema_start = << >>

\* The executions of load_upsert that are followed statement by statement.
Execs == { 1, 2 }

\* No execution of load_upsert is followed.
UpsertIdle ==
  /\ target = << >>
  /\ temp_tables = << >>
  /\ upsert_keys = << >>
  /\ ex_pid = [e \in Execs |-> Pid]
  /\ ex_rows = [e \in Execs |-> << >>]
  /\ ex_pc = [e \in Execs |-> "idle"]
  /\ merged = [e \in Execs |-> << >>]
  /\ target_start = << >>

\* The callers of set_last_sync that are followed statement by statement.
Writers == { 1, 2 }

\* No call of set_last_sync is followed.
StateIdle ==
  /\ st_pc = [w \in Writers |-> "idle"]
  /\ st_data = [w \in Writers |-> wm]
  /\ st_value = [w \in Writers |-> NoValue]
  /\ st_events = << >>

\* No backfill has been called.
BackfillIdle ==
  /\ bf = [mapping_name |-> "none", start |-> NoValue, end |-> NoneV,
           source |-> << >>, result |-> "none", records |-> << >>]
  /\ bf_count = 0

Init ==
  /\ InitMain
  /\ RetryIdle
  /\ ReconcileIdle
  /\ UpsertIdle
  /\ StateIdle
  /\ BackfillIdle

\* The tables, the watermark document and run_once at rest, for the
\* specifications that follow one call and no run.
MainIdle == InitMain /\ batch_size = 1

\* Between two runs a row is inserted into the source table.
InsertRow(v) ==
  /\ pc = "idle"
  /\ runs < MaxRuns
  /\ Len(source) < MaxRows
  /\ source' = Append(source, v)
  /\ UNCHANGED << wm, dest, staging, batch_size, runs, cur, pc, next_start,
                  all_records, pages, loaded, reports, stage, attempts,
                  wm_start, dest_start, load_outcome, faults >>
  /\ UNCHANGED auxVars

\* Between two runs a source row is updated and its incremental column, the
\* time of the row's last change, takes a later value.
UpdateRow(id, v) ==
  /\ pc = "idle"
  /\ runs < MaxRuns
  /\ id \in DOMAIN source
  /\ v > source[id]
  /\ source' = [source EXCEPT ![id] = v]
  /\ UNCHANGED << wm, dest, staging, batch_size, runs, cur, pc, next_start,
                  all_records, pages, loaded, reports, stage, attempts,
                  wm_start, dest_start, load_outcome, faults >>
  /\ UNCHANGED auxVars

\* run_once is called: the configuration is loaded and the loop starts.
StartRun ==
  /\ pc = "idle"
  /\ runs < MaxRuns
  /\ runs' = runs + 1
  /\ cur' = 1
  /\ pc' = "prepare"
  /\ attempts' = << 1 >>
  /\ reports' = << >>
  /\ stage' = [i \in MapIds |-> "pending"]
  /\ all_records' = [i \in MapIds |-> << >>]
  /\ pages' = [i \in MapIds |-> << >>]
  /\ wm_start' = wm
  /\ dest_start' = dest
  /\ load_outcome' = [i \in MapIds |-> "none"]
  /\ UNCHANGED << source, wm, dest, staging, batch_size, next_start, loaded,
                  faults >>
  /\ UNCHANGED auxVars

\* The points at which lines 42-76 of _run_mapping can end: fetch_columns
\* raises once its retries are exhausted ("discover"); ensure_table,
\* get_bq_table_schema or add_missing_columns raises ("reconcile");
\* get_last_sync raises ("window"); or the pagination loop is reached.
PrepareOutcomes == { "ok", "discover", "reconcile", "window" }

\* Lines 42-76: schema discovery, reconciliation and the incremental
\* window.
Prepare(out) ==
  /\ pc = "prepare"
  /\ IF out = "ok"
     THEN /\ pc' = "paginate"
          /\ next_start' = TextV(LastSync(wm, Mappings[cur]))
          /\ UNCHANGED << cur, loaded, reports, stage, attempts, faults >>
     ELSE Leave(out, 0)
  /\ UNCHANGED << source, wm, dest, staging, batch_size, runs, all_records, pages,
                  wm_start, dest_start, load_outcome >>
  /\ UNCHANGED auxVars

\* A loop that loads every page as soon as it is fetched.
FetchPageStreaming(ok) ==
  /\ pc = "paginate"
  /\ IF ok
     THEN /\ LET batch == fetch_incremental(
                            source, next_start, NoneV, batch_size,
                            IF all_records[cur] = << >> THEN ">=" ELSE ">")
             IN IF batch = << >>
                THEN /\ pc' = "load"
                     /\ pages' = [pages EXCEPT ![cur] = Append(@, 0)]
                     /\ UNCHANGED << all_records, next_start, dest >>
                ELSE /\ all_records' = [all_records EXCEPT ![cur] = @ \o batch]
                     /\ pages' = [pages EXCEPT ![cur] = Append(@, Len(batch))]
                     /\ next_start' = Last(batch)[incremental_column]
                     /\ dest' = [dest EXCEPT
                                   ![cur] = load_append(@, Transform(batch))]
                     /\ pc' = pc
          /\ UNCHANGED << cur, loaded, reports, stage, attempts, faults >>
     ELSE /\ Leave("paginate", 0)
          /\ UNCHANGED << all_records, pages, dest >>
  /\ UNCHANGED << source, wm, staging, batch_size, runs, wm_start,
                  dest_start, load_outcome >>
  /\ UNCHANGED auxVars

\* A loop that also ends at a page shorter than the page size.
FetchPageShortStop(ok) ==
  /\ pc = "paginate"
  /\ IF ok
     THEN /\ LET batch == fetch_incremental(
                            source, next_start, NoneV, batch_size,
                            IF all_records[cur] = << >> THEN ">=" ELSE ">")
             IN IF batch = << >>
                THEN /\ pc' = "load"
                     /\ pages' = [pages EXCEPT ![cur] = Append(@, 0)]
                     /\ UNCHANGED << all_records, next_start >>
                ELSE /\ all_records' = [all_records EXCEPT ![cur] = @ \o batch]
                     /\ pages' = [pages EXCEPT ![cur] = Append(@, Len(batch))]
                     /\ next_start' = Last(batch)[incremental_column]
                     /\ pc' = IF Len(batch) < batch_size THEN "load" ELSE pc
          /\ UNCHANGED << cur, loaded, reports, stage, attempts, faults >>
     ELSE /\ Leave("paginate", 0)
          /\ UNCHANGED << all_records, pages >>
  /\ UNCHANGED << source, wm, dest, staging, batch_size, runs, wm_start,
                  dest_start, load_outcome >>
  /\ UNCHANGED auxVars

\* One turn of the while loop at lines 77-90.
FetchPage(ok) ==
  /\ pc = "paginate"
  /\ IF ok
     THEN /\ LET batch == fetch_incremental(
                            source, next_start, NoneV, batch_size,
                            IF all_records[cur] = << >> THEN ">=" ELSE ">")
             IN IF batch = << >>
                THEN /\ pc' = "load"
                     /\ pages' = [pages EXCEPT ![cur] = Append(@, 0)]
                     /\ UNCHANGED << all_records, next_start >>
                ELSE /\ all_records' = [all_records EXCEPT ![cur] = @ \o batch]
                     /\ pages' = [pages EXCEPT ![cur] = Append(@, Len(batch))]
                     /\ next_start' = Last(batch)[incremental_column]
                     /\ pc' = pc
          /\ UNCHANGED << cur, loaded, reports, stage, attempts, faults >>
     ELSE /\ Leave("paginate", 0)
          /\ UNCHANGED << all_records, pages >>
  /\ UNCHANGED << source, wm, dest, staging, batch_size, runs, wm_start,
                  dest_start, load_outcome >>
  /\ UNCHANGED auxVars

\* load_append with the watermark written in a finally clause: it advances
\* although the load job raised.
LoadAppendFinally(ok) ==
  /\ pc = "load"
  /\ Mappings[cur].mode = "append"
  /\ LET records == Transform(all_records[cur])
     IN IF records = << >>
        THEN /\ ok
             /\ pc' = "advance"
             /\ loaded' = 0
             /\ load_outcome' = [load_outcome EXCEPT ![cur] = "ok"]
             /\ UNCHANGED << wm, dest, cur, next_start, reports, stage,
                             attempts, faults >>
        ELSE IF ok
        THEN /\ dest' = [dest EXCEPT ![cur] = load_append(@, records)]
             /\ pc' = "advance"
             /\ loaded' = Len(records)
             /\ load_outcome' = [load_outcome EXCEPT ![cur] = "ok"]
             /\ UNCHANGED << wm, cur, next_start, reports, stage, attempts,
                             faults >>
        ELSE /\ Leave("load", 0)
             /\ load_outcome' = [load_outcome EXCEPT ![cur] = "load_job"]
             /\ wm' = set_last_sync(wm, Mappings[cur].name,
                                    Str(Last(all_records[cur])[incremental_column][2]))
             /\ UNCHANGED dest
  /\ UNCHANGED << source, staging, batch_size, runs, all_records, pages,
                  wm_start, dest_start >>
  /\ UNCHANGED auxVars

\* Lines 92-105 in append mode: the transforms, then load_append, whose
\* load job succeeds or raises; no job is started for no rows.
LoadAppend(ok) ==
  /\ pc = "load"
  /\ Mappings[cur].mode = "append"
  /\ LET records == Transform(all_records[cur])
     IN IF records = << >>
        THEN /\ ok
             /\ pc' = "advance"
             /\ loaded' = 0
             /\ load_outcome' = [load_outcome EXCEPT ![cur] = "ok"]
             /\ UNCHANGED << dest, cur, next_start, reports, stage, attempts,
                             faults >>
        ELSE IF ok
        THEN /\ dest' = [dest EXCEPT ![cur] = load_append(@, records)]
             /\ pc' = "advance"
             /\ loaded' = Len(records)
             /\ load_outcome' = [load_outcome EXCEPT ![cur] = "ok"]
             /\ UNCHANGED << cur, next_start, reports, stage, attempts,
                             faults >>
        ELSE /\ Leave("load", 0)
             /\ load_outcome' = [load_outcome EXCEPT ![cur] = "load_job"]
             /\ UNCHANGED dest
  /\ UNCHANGED << source, wm, staging, batch_size, runs, all_records, pages,
                  wm_start, dest_start >>
  /\ UNCHANGED auxVars

\* Lines 92-105 in upsert mode: the transforms, then load_upsert, which
\* ends at one of its outcomes.
LoadUpsert(out) ==
  /\ pc = "load"
  /\ Mappings[cur].mode # "append"
  /\ LET records == Transform(all_records[cur])
         pks == Mappings[cur].primary_keys
         r == load_upsert(dest[cur], staging, Mappings[cur].bigquery_table,
                          records, pks, out)
     IN /\ records = << >> => out = "ok"
        /\ records # << >> => UpsertCanEnd(dest[cur], records, pks, out)
        /\ dest' = [dest EXCEPT ![cur] = r.dest]
        /\ staging' = r.staging
        /\ load_outcome' = [load_outcome EXCEPT ![cur] = out]
        /\ IF r.raised
           THEN Leave("load", 0)
           ELSE /\ pc' = "advance"
                /\ loaded' = r.ret
                /\ UNCHANGED << cur, next_start, reports, stage, attempts,
                                faults >>
  /\ UNCHANGED << source, wm, batch_size, runs, all_records, pages, wm_start,
                  dest_start >>
  /\ UNCHANGED auxVars

\* The watermark taken from the first record fetched, not the last.
NewWatermarkFirst(records) == Str(records[1][incremental_column][2])

\* Lines 110-111: the text of the incremental value of the last record.
NewWatermark(records) == Str(Last(records)[incremental_column][2])

\* Lines 107-113: the report takes the count, and with rows fetched the
\* watermark is written; the write succeeds or raises with the document
\* as it was.
AdvanceWatermark(ok) ==
  /\ pc = "advance"
  /\ IF all_records[cur] # << >>
     THEN IF ok
          THEN /\ wm' = set_last_sync(wm, Mappings[cur].name,
                                      NewWatermark(all_records[cur]))
               /\ Leave("ok", loaded)
          ELSE /\ Leave("advance", 0)
               /\ UNCHANGED wm
     ELSE /\ ok
          /\ Leave("ok", loaded)
          /\ UNCHANGED wm
  /\ UNCHANGED << source, dest, staging, batch_size, runs, all_records, pages,
                  wm_start, dest_start, load_outcome >>
  /\ UNCHANGED auxVars

\* main.py:191-194 and 199-202: the caller of run_once logs the reports it
\* got and drops them; the locals of the run are gone.
LogReports ==
  /\ pc = "returned"
  /\ pc' = "idle"
  /\ cur' = 1
  /\ reports' = << >>
  /\ attempts' = << >>
  /\ stage' = [i \in MapIds |-> "pending"]
  /\ all_records' = [i \in MapIds |-> << >>]
  /\ pages' = [i \in MapIds |-> << >>]
  /\ wm_start' = wm
  /\ dest_start' = dest
  /\ load_outcome' = [i \in MapIds |-> "none"]
  /\ UNCHANGED << source, wm, dest, staging, batch_size, runs, next_start,
                  loaded, faults >>
  /\ UNCHANGED auxVars

Next ==
  \/ \E v \in 1..MaxVal : InsertRow(v)
  \/ \E id \in 1..MaxRows, v \in 1..MaxVal : UpdateRow(id, v)
  \/ StartRun
  \/ \E out \in PrepareOutcomes : Prepare(out)
  \/ \E ok \in BOOLEAN : FetchPage(ok)
  \/ \E ok \in BOOLEAN : LoadAppend(ok)
  \/ \E out \in UpsertOutcomes : LoadUpsert(out)
  \/ \E ok \in BOOLEAN : AdvanceWatermark(ok)
  \/ LogReports

Spec == Init /\ [][Next]_vars

\* ========================================================== the retries
\* stop_after_attempt(5) at extract.py:29 and extract.py:43.
StopAfterAttempt == 5

\* reraise=True at extract.py:27 and extract.py:41.
Reraise == TRUE

\* mysql.connector.Error (extract.py:6) and the classes derived from it
\* that a connection or a query raises: OperationalError (connection lost,
\* timeout), InterfaceError (no connection to the server), ProgrammingError
\* (SQL syntax error, unknown table, access denied).
MysqlErrors == { "OperationalError", "InterfaceError", "ProgrammingError" }

\* The decorated methods with the operator argument of fetch_incremental:
\* the two operators _run_mapping and backfill pass, and one it rejects.
Methods ==
  { [name |-> "fetch_columns", operator |-> ">"] } \cup
  { [name |-> "fetch_incremental", operator |-> op] : op \in { ">", ">=", "=" } }

\* How one execution of the method's body can end: the operator check of
\* fetch_incremental raises ValueError before anything is sent (lines
\* 56-57); otherwise the rows are returned or the connector raises.
BodyOutcomes(m) ==
  IF m.name = "fetch_incremental" /\ m.operator \notin { ">", ">=" }
  THEN { "ValueError" }
  ELSE { "value" } \cup MysqlErrors

\* retry=retry_if_exception_type(Error): isinstance(exception, Error).
retry_if_exception_type(exception) == exception \in MysqlErrors

\* A decorator that gives up one attempt later.
StopAfterOneMore(n) == n >= StopAfterAttempt + 1

\* stop=stop_after_attempt(5): attempt_number >= 5.
stop_after_attempt(n) == n >= StopAfterAttempt

\* What the caller gets once the decorator gives up: with reraise the
\* exception of the last attempt, else tenacity's RetryError.
GiveUp(last) == IF Reraise THEN last ELSE "RetryError"

\* _run_mapping calls a decorated method of the extractor (main.py:51 and
\* main.py:78-86).
InitRetry ==
  /\ MainIdle
  /\ BackfillIdle
  /\ StateIdle
  /\ ReconcileIdle
  /\ UpsertIdle
  /\ method \in Methods
  /\ attempt_number = 1
  /\ raised_log = << >>
  /\ call_state = "attempt"
  /\ call_result = << "nothing" >>
  /\ caller_state = "running"

\* One attempt under @retry: the body runs; its value is returned; an
\* exception that is no mysql.connector.Error is raised as it is; for an
\* Error the decorator gives up at the fifth attempt and sleeps before the
\* next one otherwise.  Neither call in _run_mapping is inside a try, so
\* what the call raises ends _run_mapping.
Attempt(outcome) ==
  /\ call_state = "attempt"
  /\ outcome \in BodyOutcomes(method)
  /\ IF outcome = "value"
     THEN /\ call_state' = "returned"
          /\ call_result' = << "value" >>
          /\ caller_state' = "on"
          /\ UNCHANGED raised_log
     ELSE /\ raised_log' = Append(raised_log, outcome)
          /\ IF ~retry_if_exception_type(outcome)
             THEN /\ call_state' = "raised"
                  /\ call_result' = << "exception", outcome >>
                  /\ caller_state' = "failed"
             ELSE IF stop_after_attempt(attempt_number)
             THEN /\ call_state' = "raised"
                  /\ call_result' = << "exception", GiveUp(outcome) >>
                  /\ caller_state' = "failed"
             ELSE /\ call_state' = "sleep"
                  /\ UNCHANGED << call_result, caller_state >>
  /\ UNCHANGED << method, attempt_number >>
  /\ UNCHANGED exceptRetry

\* wait=wait_exponential(multiplier=1, min=2, max=30): the sleep is over
\* and the next attempt starts.
Sleep ==
  /\ call_state = "sleep"
  /\ call_state' = "attempt"
  /\ attempt_number' = attempt_number + 1
  /\ UNCHANGED << method, raised_log, call_result, caller_state >>
  /\ UNCHANGED exceptRetry

NextRetry ==
  \/ \E outcome \in { "value", "ValueError" } \cup MysqlErrors : Attempt(outcome)
  \/ Sleep

SpecRetry == InitRetry /\ [][NextRetry]_vars

\* ======================================================= reconciliation
\* A str is the sequence of its characters.
UpperCase == << "A", "B", "C", "D", "E", "F", "G", "H", "I", "J", "K", "L", "M" >> \o
             << "N", "O", "P", "Q", "R", "S", "T", "U", "V", "W", "X", "Y", "Z" >>

LowerCase == << "a", "b", "c", "d", "e", "f", "g", "h", "i", "j", "k", "l", "m" >> \o
             << "n", "o", "p", "q", "r", "s", "t", "u", "v", "w", "x", "y", "z" >>

\* str.lower().
lower(text) ==
  [j \in DOMAIN text |->
     IF \E k \in DOMAIN UpperCase : UpperCase[k] = text[j]
     THEN LowerCase[CHOOSE k \in DOMAIN UpperCase : UpperCase[k] = text[j]]
     ELSE text[j]]

\* str.split("(")[0]: the text before the first "(".
BeforeParen(text) ==
  IF \E j \in DOMAIN text : text[j] = "("
  THEN SubSeq(text, 1, (CHOOSE j \in DOMAIN text :
                          /\ text[j] = "("
                          /\ \A k \in 1..(j - 1) : text[k] # "(") - 1)
  ELSE text

\* str.strip(): without the blanks at its ends.
RECURSIVE strip(_)
strip(text) ==
  IF text = << >> THEN text
  ELSE IF text[1] = " " THEN strip(Tail(text))
  ELSE IF Last(text) = " " THEN strip(SubSeq(text, 1, Len(text) - 1))
  ELSE text

\* MYSQL_TO_BQ_TYPE: the pairs of a MySQL base type and a BigQuery type.
MYSQL_TO_BQ_TYPE ==
  {
    << << "i", "n", "t" >>, "INT64" >>,
    << << "b", "i", "g", "i", "n", "t" >>, "INT64" >>,
    << << "s", "m", "a", "l", "l", "i", "n", "t" >>, "INT64" >>,
    << << "t", "i", "n", "y", "i", "n", "t" >>, "INT64" >>,
    << << "f", "l", "o", "a", "t" >>, "FLOAT64" >>,
    << << "d", "o", "u", "b", "l", "e" >>, "FLOAT64" >>,
    << << "d", "e", "c", "i", "m", "a", "l" >>, "NUMERIC" >>,
    << << "v", "a", "r", "c", "h", "a", "r" >>, "STRING" >>,
    << << "c", "h", "a", "r" >>, "STRING" >>,
    << << "t", "e", "x", "t" >>, "STRING" >>,
    << << "l", "o", "n", "g", "t", "e", "x", "t" >>, "STRING" >>,
    << << "d", "a", "t", "e", "t", "i", "m", "e" >>, "TIMESTAMP" >>,
    << << "t", "i", "m", "e", "s", "t", "a", "m", "p" >>, "TIMESTAMP" >>,
    << << "d", "a", "t", "e" >>, "DATE" >>,
    << << "t", "i", "m", "e" >>, "TIME" >>,
    << << "j", "s", "o", "n" >>, "STRING" >>
  }

\* normalize_mysql_type: the entry of the base type, or STRING.
normalize_mysql_type(mysql_type) ==
  LET base == strip(BeforeParen(lower(mysql_type)))
  IN IF \E e \in MYSQL_TO_BQ_TYPE : e[1] = base
     THEN (CHOOSE e \in MYSQL_TO_BQ_TYPE : e[1] = base)[2]
     ELSE "STRING"

\* The Type column of SHOW COLUMNS for the columns of the source tables.
TypeInt == << "i", "n", "t", "(", "1", "1", ")" >>

TypeDatetime == << "d", "a", "t", "e", "t", "i", "m", "e" >>

TypeVarchar == << "v", "a", "r", "c", "h", "a", "r", "(", "2", "5", "5", ")" >>

TypeBigintUnsigned == << "b", "i", "g", "i", "n", "t", " ", "u", "n", "s", "i", "g", "n", "e", "d" >>

\* What fetch_columns returns: the source table of the mappings, and the
\* same table with a wider key and one more column.
SourceTables ==
  { << << "id", TypeInt >>, << "val", TypeDatetime >> >>,
    << << "id", TypeBigintUnsigned >>, << "val", TypeDatetime >>,
       << "note", TypeVarchar >> >> }

\* bigquery.SchemaField(name, field_type, mode) over the columns and types
\* a destination table may have.
SchemaField(name, field_type, mode) ==
  [name |-> name, field_type |-> field_type, mode |-> mode]

Fields ==
  { SchemaField(n, t, m) : n \in { "id", "val", "old" },
                           t \in { "INT64", "STRING", "TIMESTAMP" },
                           m \in { "NULLABLE", "REQUIRED" } }

\* The schemas of at most MaxFields fields, no two of one name.
Schemas ==
  { sch \in UNION { [1..n -> Fields] : n \in 0..MaxFields } :
      \A j, k \in DOMAIN sch : j # k => sch[j].name # sch[k].name }

\* The names of the fields of a schema.
FieldNames(schema) == { schema[j].name : j \in DOMAIN schema }

\* schema_difference: the source columns the schema has no field for, with
\* the type expected for them, and the ones whose field has another type.
schema_difference(columns, schema) ==
  LET bq_fields(name) == schema[CHOOSE j \in DOMAIN schema :
                                  /\ schema[j].name = name
                                  /\ \A k \in DOMAIN schema :
                                        schema[k].name = name => k <= j]
      expected(j) == normalize_mysql_type(columns[j][2])
      IsMissing(j) == columns[j][1] \notin FieldNames(schema)
      IsMismatch(j) == /\ ~IsMissing(j)
                       /\ bq_fields(columns[j][1]).field_type # expected(j)
      RECURSIVE missing(_), type_mismatches(_)
      missing(j) ==
        IF j > Len(columns) THEN << >>
        ELSE (IF IsMissing(j) THEN << << columns[j][1], expected(j) >> >>
              ELSE << >>) \o missing(j + 1)
      type_mismatches(j) ==
        IF j > Len(columns) THEN << >>
        ELSE (IF IsMismatch(j)
              THEN << << columns[j][1], bq_fields(columns[j][1]).field_type,
                         expected(j) >> >>
              ELSE << >>) \o type_mismatches(j + 1)
  IN [missing |-> missing(1), type_mismatches |-> type_mismatches(1)]

\* A schema evolution that rewrites the schema from the source columns.
ReplaceSchema(schema, columns) ==
  [j \in DOMAIN columns |->
     SchemaField(columns[j][1], columns[j][2], "NULLABLE")]

\* add_missing_columns, a call that returns: the schema with one nullable
\* field appended for every column given.
add_missing_columns(schema, columns) ==
  IF columns = << >> THEN schema
  ELSE schema \o [j \in DOMAIN columns |->
                    SchemaField(columns[j][1], columns[j][2], "NULLABLE")]

\* The dictionary the cursor returns for one source row with these columns.
SourceRow(columns) ==
  [c \in { columns[j][1] : j \in DOMAIN columns } |->
     IF c = "id" THEN IntV(1)
     ELSE IF c = incremental_column THEN DtV(1)
     ELSE TextV(<< >>)]

\* _run_mapping is called for a mapping: the source table has one of the
\* column lists; the destination table does not exist, or exists with some
\* schema.
InitReconcile ==
  /\ MainIdle
  /\ BackfillIdle
  /\ StateIdle
  /\ RetryIdle
  /\ UpsertIdle
  /\ mysql_columns \in SourceTables
  /\ table_exists \in BOOLEAN
  /\ bq_schema \in Schemas
  /\ ~table_exists => bq_schema = << >>
  /\ allow_schema_additions \in BOOLEAN
  /\ diff = [missing |-> << >>, type_mismatches |-> << >>]
  /\ handed = << >>
  /\ rec_pc = "ensure_table"
  /\ rec_failed = "none"
  /\ schema_start = bq_schema

\* A call of lines 52-65 raised: nothing catches it in _run_mapping.
Raise(call) ==
  /\ rec_pc' = "failed"
  /\ rec_failed' = call

\* main.py:52, ensure_table: a table that is not found is created, with no
\* field; get_table or create_table can raise.
EnsureTable(ok) ==
  /\ rec_pc = "ensure_table"
  /\ IF ok
     THEN /\ table_exists' = TRUE
          /\ rec_pc' = "get_bq_table_schema"
          /\ UNCHANGED rec_failed
     ELSE /\ Raise("ensure_table")
          /\ UNCHANGED table_exists
  /\ UNCHANGED << mysql_columns, bq_schema, allow_schema_additions, diff,
                  handed, schema_start >>
  /\ UNCHANGED exceptReconcile

\* main.py:53-56: get_bq_table_schema reads the schema, or raises, and
\* schema_difference compares it with the source columns.
GetSchema(ok) ==
  /\ rec_pc = "get_bq_table_schema"
  /\ IF ok
     THEN /\ diff' = schema_difference(mysql_columns, bq_schema)
          /\ rec_pc' = "evolve"
          /\ UNCHANGED rec_failed
     ELSE /\ Raise("get_bq_table_schema")
          /\ UNCHANGED diff
  /\ UNCHANGED << mysql_columns, table_exists, bq_schema,
                  allow_schema_additions, handed, schema_start >>
  /\ UNCHANGED exceptReconcile

\* main.py:57-65: with missing columns and the opt-in, add_missing_columns
\* updates the table or raises; without the opt-in they are logged.
Evolve(ok) ==
  /\ rec_pc = "evolve"
  /\ IF diff.missing # << >> /\ allow_schema_additions
     THEN IF ok
          THEN /\ bq_schema' = add_missing_columns(bq_schema, diff.missing)
               /\ rec_pc' = "load"
               /\ UNCHANGED rec_failed
          ELSE /\ Raise("add_missing_columns")
               /\ UNCHANGED bq_schema
     ELSE /\ ok
          /\ rec_pc' = "load"
          /\ UNCHANGED << bq_schema, rec_failed >>
  /\ UNCHANGED << mysql_columns, table_exists, allow_schema_additions, diff,
                  handed, schema_start >>
  /\ UNCHANGED exceptReconcile

\* main.py:74-105: a row fetched with the source columns goes through the
\* transforms and is passed to the load call.
HandToLoader ==
  /\ rec_pc = "load"
  /\ LET columns == [j \in DOMAIN mysql_columns |-> mysql_columns[j][1]]
         records == cast_nulls(<< SourceRow(mysql_columns) >>)
     IN handed' = align_columns(normalize_timestamps(records), columns)
  /\ rec_pc' = "loaded"
  /\ UNCHANGED << mysql_columns, table_exists, bq_schema,
                  allow_schema_additions, diff, rec_failed, schema_start >>
  /\ UNCHANGED exceptReconcile

NextReconcile ==
  \/ \E ok \in BOOLEAN : EnsureTable(ok)
  \/ \E ok \in BOOLEAN : GetSchema(ok)
  \/ \E ok \in BOOLEAN : Evolve(ok)
  \/ HandToLoader

SpecReconcile == InitReconcile /\ [][NextReconcile]_vars

\* ================================================ concurrent load_upsert
\* os.getpid() of the processes that run the syncer: two executions have
\* the same pid when they are in one process, or in processes of different
\* hosts or containers that got the same number.
Pids == { Pid, "pid2" }

\* temp_table_name = f"_{table}_staging_{os.getpid()}" at load.py:55.
TempTableName(table, pid) == << table, pid >>

\* The destination table of the mapping whose load_upsert calls overlap.
UpsertTable == Mappings[2].bigquery_table

\* A transformed row of the mapping.
LoadRow(id, v) ==
  [c \in Range(Columns) |-> IF c = "id" THEN IntV(id) ELSE IsoV(v)]

\* The rows arguments: no row, or one row.
Batches ==
  { << >> } \cup { << LoadRow(id, v) >> : id \in 1..2, v \in 1..MaxVal }

\* The staging table of execution e.
TempOf(e) == TempTableName(UpsertTable, ex_pid[e])

\* A table f without the entry of name n (delete_table, not_found_ok=True).
Dropped(f, n) == [k \in DOMAIN f \ { n } |-> f[k]]

\* A table f in which name n holds rows r.
Stored(f, n, r) == [k \in DOMAIN f \cup { n } |-> IF k = n THEN r ELSE f[k]]

\* Two runs of the upsert-mode mapping reach load_upsert for the same
\* destination table; the table is empty or holds a row of an earlier run.
\* The mapping's primary_keys are its key column, or an empty list.
InitUpsert ==
  /\ MainIdle
  /\ BackfillIdle
  /\ StateIdle
  /\ RetryIdle
  /\ ReconcileIdle
  /\ target \in { << >>, << LoadRow(1, 1) >> }
  /\ temp_tables = << >>
  /\ upsert_keys \in { Mappings[2].primary_keys, << >> }
  /\ ex_pid \in [Execs -> Pids]
  /\ ex_pid[1] = Pid
  /\ ex_rows \in [Execs -> Batches]
  /\ ex_pc = [e \in Execs |-> "called"]
  /\ merged = [e \in Execs |-> << >>]
  /\ target_start = target

\* Execution e goes to statement `to`, or raises when the call failed.
Step(e, ok, to) ==
  ex_pc' = [ex_pc EXCEPT ![e] = IF ok THEN to ELSE "raised"]

\* load.py:51-53: no rows, return 0; else ensure_table.
UpsertBegin(e, ok) ==
  /\ ex_pc[e] = "called"
  /\ IF ex_rows[e] = << >>
     THEN ok /\ Step(e, TRUE, "returned")
     ELSE Step(e, ok, "delete_table")
  /\ UNCHANGED << target, temp_tables, upsert_keys, ex_pid, ex_rows, merged,
                  target_start >>
  /\ UNCHANGED exceptUpsert

\* load.py:60: delete_table(temp_ref, not_found_ok=True).
UpsertDeleteOld(e, ok) ==
  /\ ex_pc[e] = "delete_table"
  /\ Step(e, ok, "create_table")
  /\ temp_tables' = IF ok THEN Dropped(temp_tables, TempOf(e)) ELSE temp_tables
  /\ UNCHANGED << target, upsert_keys, ex_pid, ex_rows, merged, target_start >>
  /\ UNCHANGED exceptUpsert

\* load.py:61-62: create_table; a table of that name that exists is a
\* conflict, which raises.
UpsertCreate(e, ok) ==
  /\ ex_pc[e] = "create_table"
  /\ LET done == ok /\ TempOf(e) \notin DOMAIN temp_tables
     IN /\ Step(e, done, "load_job")
        /\ temp_tables' = IF done THEN Stored(temp_tables, TempOf(e), << >>)
                          ELSE temp_tables
  /\ UNCHANGED << target, upsert_keys, ex_pid, ex_rows, merged, target_start >>
  /\ UNCHANGED exceptUpsert

\* load.py:65-69: the load job with WRITE_TRUNCATE replaces the rows of the
\* staging table, creating the table when it is not there.
UpsertLoadJob(e, ok) ==
  /\ ex_pc[e] = "load_job"
  /\ Step(e, ok, "merge")
  /\ temp_tables' = IF ok THEN Stored(temp_tables, TempOf(e), ex_rows[e])
                    ELSE temp_tables
  /\ UNCHANGED << target, upsert_keys, ex_pid, ex_rows, merged, target_start >>
  /\ UNCHANGED exceptUpsert

\* load.py:71-96: the MERGE from the staging table into the destination;
\* it raises when the staging table is gone or the statement cannot run.
UpsertMerge(e, ok) ==
  /\ ex_pc[e] = "merge"
  /\ LET there == TempOf(e) \in DOMAIN temp_tables
         S == IF there THEN temp_tables[TempOf(e)] ELSE << >>
         done == /\ ok
                 /\ there
                 /\ ~MergeError(target, S, upsert_keys)
     IN /\ Step(e, done, "cleanup")
        /\ target' = IF done /\ S # << >> THEN Merge(target, S, upsert_keys)
                     ELSE target
        /\ merged' = IF done THEN [merged EXCEPT ![e] = S] ELSE merged
  /\ UNCHANGED << temp_tables, upsert_keys, ex_pid, ex_rows, target_start >>
  /\ UNCHANGED exceptUpsert

\* load.py:99-100: the staging table is deleted and len(rows) returned.
UpsertCleanup(e, ok) ==
  /\ ex_pc[e] = "cleanup"
  /\ Step(e, ok, "returned")
  /\ temp_tables' = IF ok THEN Dropped(temp_tables, TempOf(e)) ELSE temp_tables
  /\ UNCHANGED << target, upsert_keys, ex_pid, ex_rows, merged, target_start >>
  /\ UNCHANGED exceptUpsert

NextUpsert ==
  \/ \E e \in Execs, ok \in BOOLEAN : UpsertBegin(e, ok)
  \/ \E e \in Execs, ok \in BOOLEAN : UpsertDeleteOld(e, ok)
  \/ \E e \in Execs, ok \in BOOLEAN : UpsertCreate(e, ok)
  \/ \E e \in Execs, ok \in BOOLEAN : UpsertLoadJob(e, ok)
  \/ \E e \in Execs, ok \in BOOLEAN : UpsertMerge(e, ok)
  \/ \E e \in Execs, ok \in BOOLEAN : UpsertCleanup(e, ok)

SpecUpsert == InitUpsert /\ [][NextUpsert]_vars

\* ============================================= concurrent set_last_sync
\* The mapping whose watermark caller w sets: two runs that overlap, each
\* at the set_last_sync of another mapping.
WriterName(w) == Mappings[w].name

\* The watermark document holds any watermarks of earlier runs; each caller
\* has reached main.py:111 with the text of a later instant.
InitState ==
  /\ wm \in [Names -> { NoValue } \cup { Str(v) : v \in 0..MaxVal }]
  /\ InitRun
  /\ batch_size = 1
  /\ BackfillIdle
  /\ RetryIdle
  /\ ReconcileIdle
  /\ UpsertIdle
  /\ st_pc = [w \in Writers |-> "called"]
  /\ st_data = [w \in Writers |-> wm]
  /\ st_value \in [Writers -> { Str(v) : v \in 1..MaxVal }]
  /\ st_events = << >>

\* state.py:74, data = self.load(): the caller reads the whole document.
StateLoad(w) ==
  /\ st_pc[w] = "called"
  /\ st_data' = [st_data EXCEPT ![w] = wm]
  /\ st_pc' = [st_pc EXCEPT ![w] = "loaded"]
  /\ st_events' = Append(st_events, << w, "load" >>)
  /\ UNCHANGED << wm, wm_start, st_value >>
  /\ UNCHANGED exceptState

\* state.py:75-78: the entry is set in the caller's data, and save writes
\* that data as the whole document.
StateSave(w) ==
  /\ st_pc[w] = "loaded"
  /\ wm' = set_last_sync(st_data[w], WriterName(w), st_value[w])
  /\ st_data' = [st_data EXCEPT ![w] = wm']
  /\ st_pc' = [st_pc EXCEPT ![w] = "saved"]
  /\ st_events' = Append(st_events, << w, "save" >>)
  /\ UNCHANGED << wm_start, st_value >>
  /\ UNCHANGED exceptState

NextState ==
  \/ \E w \in Writers : StateLoad(w)
  \/ \E w \in Writers : StateSave(w)

SpecState == InitState /\ [][NextState]_vars

\* ============================================================= backfill
\* batch_size=100000 at main.py:164.
BackfillBatchSize == 100000

\* The mapping names given to --mapping: the configured ones and one that
\* is not configured.
BackfillNames == Names \cup { "m0" }

\* The mapping of that name: next(m for m in mappings if m["name"] == ...).
MappingId(mapping_name) == CHOOSE i \in MapIds : Mappings[i].name = mapping_name

\* The calls before the load at which backfill can end: the mapping is not
\* configured (ValueError), fetch_columns, ensure_table or
\* fetch_incremental raises, or the load call is reached.
BackfillOutcomes ==
  { "not_found", "fetch_columns", "ensure_table", "fetch_incremental", "load" }

\* The rows backfill fetches: one call of fetch_incremental with the
\* default operator, start_value and end_value as given.
BackfillFetch(src, start, end) ==
  fetch_incremental(src, TextV(start), end, BackfillBatchSize, ">")

\* A backfill that stores the last value it fetched as the watermark.
BackfillAdvancing(mapping_name, start, end, pre, out) ==
  /\ pc = "idle"
  /\ bf_count < MaxBackfills
  /\ bf_count' = bf_count + 1
  /\ pre = "not_found" <=> mapping_name \notin Names
  /\ IF pre # "load"
     THEN /\ out = "ok"
          /\ bf' = [mapping_name |-> mapping_name, start |-> start,
                    end |-> end, source |-> source, result |-> pre,
                    records |-> << >>]
          /\ UNCHANGED << dest, staging >>
     ELSE LET i == MappingId(mapping_name)
              mapping == Mappings[i]
              records == Transform(BackfillFetch(source, start, end))
          IN IF mapping.mode = "append"
             THEN /\ out \in { "ok", "load_job" }
                  /\ records = << >> => out = "ok"
                  /\ dest' = IF out = "ok"
                             THEN [dest EXCEPT ![i] = load_append(@, records)]
                             ELSE dest
                  /\ bf' = [mapping_name |-> mapping_name, start |-> start,
                            end |-> end, source |-> source,
                            result |-> IF out = "ok" THEN "returned"
                                       ELSE "load_raised",
                            records |-> records]
                  /\ UNCHANGED staging
             ELSE LET r == load_upsert(dest[i], staging,
                                       mapping.bigquery_table, records,
                                       mapping.primary_keys, out)
                  IN /\ records = << >> => out = "ok"
                     /\ records # << >> =>
                          UpsertCanEnd(dest[i], records,
                                       mapping.primary_keys, out)
                     /\ dest' = [dest EXCEPT ![i] = r.dest]
                     /\ staging' = r.staging
                     /\ bf' = [mapping_name |-> mapping_name,
                               start |-> start, end |-> end,
                               source |-> source,
                               result |-> IF r.raised THEN "load_raised"
                                          ELSE "returned",
                               records |-> records]
  /\ UNCHANGED << source, batch_size, runs, cur, pc, next_start,
                  all_records, pages, loaded, reports, stage, attempts,
                  wm_start, dest_start, load_outcome, faults >>
  /\ wm' = IF pre = "load" /\ BackfillFetch(source, start, end) # << >>
           THEN set_last_sync(wm, mapping_name,
                              NewWatermark(BackfillFetch(source, start, end)))
           ELSE wm
  /\ UNCHANGED exceptBackfill

\* backfill(config_path, mapping_name, start, end), lines 134-179: it ends
\* at `pre` before the load, or its load call ends at `out`.
Backfill(mapping_name, start, end, pre, out) ==
  /\ pc = "idle"
  /\ bf_count < MaxBackfills
  /\ bf_count' = bf_count + 1
  /\ pre = "not_found" <=> mapping_name \notin Names
  /\ IF pre # "load"
     THEN /\ out = "ok"
          /\ bf' = [mapping_name |-> mapping_name, start |-> start,
                    end |-> end, source |-> source, result |-> pre,
                    records |-> << >>]
          /\ UNCHANGED << dest, staging >>
     ELSE LET i == MappingId(mapping_name)
              mapping == Mappings[i]
              records == Transform(BackfillFetch(source, start, end))
          IN IF mapping.mode = "append"
             THEN /\ out \in { "ok", "load_job" }
                  /\ records = << >> => out = "ok"
                  /\ dest' = IF out = "ok"
                             THEN [dest EXCEPT ![i] = load_append(@, records)]
                             ELSE dest
                  /\ bf' = [mapping_name |-> mapping_name, start |-> start,
                            end |-> end, source |-> source,
                            result |-> IF out = "ok" THEN "returned"
                                       ELSE "load_raised",
                            records |-> records]
                  /\ UNCHANGED staging
             ELSE LET r == load_upsert(dest[i], staging,
                                       mapping.bigquery_table, records,
                                       mapping.primary_keys, out)
                  IN /\ records = << >> => out = "ok"
                     /\ records # << >> =>
                          UpsertCanEnd(dest[i], records,
                                       mapping.primary_keys, out)
                     /\ dest' = [dest EXCEPT ![i] = r.dest]
                     /\ staging' = r.staging
                     /\ bf' = [mapping_name |-> mapping_name,
                               start |-> start, end |-> end,
                               source |-> source,
                               result |-> IF r.raised THEN "load_raised"
                                          ELSE "returned",
                               records |-> records]
  /\ UNCHANGED << source, wm, batch_size, runs, cur, pc, next_start,
                  all_records, pages, loaded, reports, stage, attempts,
                  wm_start, dest_start, load_outcome, faults >>
  /\ UNCHANGED exceptBackfill

\* The source table is filled and changed, and 'backfill' is run from the
\* command line, on a deployment whose runs have stored any watermarks.
InitBackfill ==
  /\ wm \in [Names -> { NoValue, Str(1) }]
  /\ InitRun
  /\ batch_size = 1
  /\ RetryIdle
  /\ ReconcileIdle
  /\ UpsertIdle
  /\ StateIdle
  /\ BackfillIdle

NextBackfill ==
  \/ \E v \in 1..MaxVal : InsertRow(v)
  \/ \E id \in 1..MaxRows, v \in 1..MaxVal : UpdateRow(id, v)
  \/ \E mapping_name \in BackfillNames, start \in 0..MaxVal,
        end \in { NoneV } \cup { TextV(Str(v)) : v \in 1..MaxVal },
        pre \in BackfillOutcomes, out \in UpsertOutcomes :
          Backfill(mapping_name, Str(start), end, pre, out)

SpecBackfill == InitBackfill /\ [][NextBackfill]_vars

\* ============================================================== claims
NameOf(i) == Mappings[i].name

\* The run of mapping i raised (at the call its stage names).
Failed(i) == stage[i] \notin { "pending", "ok" }

\* C1: when the load call of a mapping raises, the watermark stored for
\* that mapping is the one it had when the run started, up to and after the
\* return of run_once; and a watermark that differs from the one at the
\* start of the run belongs to a mapping whose load call returned.
C1_NoAdvanceOnLoadFailure ==
  \A i \in MapIds :
     /\ load_outcome[i] \notin { "none", "ok" } =>
          /\ stage[i] = "load"
          /\ wm[NameOf(i)] = wm_start[NameOf(i)]
     /\ wm[NameOf(i)] # wm_start[NameOf(i)] => load_outcome[i] = "ok"

\* C1 witness: run_once has returned, and the load job of a mapping that
\* had fetched rows beyond its watermark raised.
C1_Witness ==
  /\ pc = "returned"
  /\ \E i \in MapIds :
       /\ load_outcome[i] = "load_job"
       /\ wm_start[NameOf(i)] # NoValue
       /\ \E j \in DOMAIN all_records[i] :
            all_records[i][j][incremental_column][2] > Num(wm_start[NameOf(i)])

\* C2: run_once calls _run_mapping once for every configured mapping, in
\* configuration order, whatever raised in an earlier mapping: while the
\* run is on, the mappings attempted are 1..cur in order, and when it has
\* returned every mapping was attempted and ended, and each mapping in
\* which nothing raised has its report.
C2_FailureIsolation ==
  /\ pc # "idle" =>
       /\ attempts = [k \in 1..Len(attempts) |-> k]
       /\ Len(attempts) = cur
       /\ \A i \in MapIds : (stage[i] # "pending") <=> (i < cur \/ pc = "returned")
  /\ pc = "returned" =>
       /\ attempts = [k \in MapIds |-> k]
       /\ \A i \in MapIds :
            stage[i] = "ok" =>
              \E k \in DOMAIN reports : reports[k].mapping_name = NameOf(i)

\* C2 witness: the first mapping raised, and the second one, run after it,
\* fetched rows, loaded them and advanced its watermark.
C2_Witness ==
  /\ pc = "returned"
  /\ Failed(1)
  /\ stage[2] = "ok"
  /\ all_records[2] # << >>
  /\ wm[NameOf(2)] # wm_start[NameOf(2)]

\* C3: when run_once has returned, the reports hold one entry for every
\* configured mapping, and the entry of a mapping that raised has a
\* non-empty errors list.
C3_FailureMarkedReport ==
  pc = "returned" =>
    /\ Len(reports) = Len(Mappings)
    /\ \A i \in MapIds :
         Failed(i) =>
           \E k \in DOMAIN reports :
              /\ reports[k].mapping_name = NameOf(i)
              /\ reports[k].errors # << >>

\* The instant in the incremental column of a fetched record.
Instant(r) == r[incremental_column][2]

\* The run of mapping i started from a stored watermark and fetched a row
\* whose incremental value exceeds it.
FetchedBeyond(i) ==
  /\ wm_start[NameOf(i)] # NoValue
  /\ \E j \in DOMAIN all_records[i] :
       Instant(all_records[i][j]) > Num(wm_start[NameOf(i)])

\* The stored watermark of mapping i is not below the one stored when the
\* run started, in the order of the incremental column.
NotRegressed(i) ==
  wm_start[NameOf(i)] # NoValue =>
    /\ wm[NameOf(i)] # NoValue
    /\ Num(wm[NameOf(i)]) >= Num(wm_start[NameOf(i)])

\* C4 as claimed: the stored watermark never regresses from one run to the
\* next, and once the mapping's run has ended it is strictly greater
\* whenever the run fetched a row beyond the previous watermark.
C4_MonotonicStrictAnyRun ==
  \A i \in MapIds :
     /\ NotRegressed(i)
     /\ (stage[i] # "pending" /\ FetchedBeyond(i)) =>
          Num(wm[NameOf(i)]) > Num(wm_start[NameOf(i)])

\* C4 as amended: the stored watermark never regresses from one run to the
\* next, and it is strictly greater whenever the run fetched a row beyond
\* the previous watermark and completed (its load and its watermark write
\* returned).
C4_MonotonicStrictOnSuccess ==
  \A i \in MapIds :
     /\ NotRegressed(i)
     /\ (stage[i] = "ok" /\ FetchedBeyond(i)) =>
          Num(wm[NameOf(i)]) > Num(wm_start[NameOf(i)])

\* C4 witness: a later run of a mapping completed after fetching a row
\* beyond the watermark an earlier run had stored.
C4_Witness ==
  \E i \in MapIds : stage[i] = "ok" /\ FetchedBeyond(i) /\ runs >= 2

\* The source rows at or above the lower bound the run of the current
\* mapping started from.
Eligible == { id \in DOMAIN source :
                source[id] >= Num(LastSync(wm, Mappings[cur])) }

\* C5: when the pagination loop of a run has ended, every source row whose
\* incremental value is at or above the run's starting watermark is in the
\* fetched pages exactly once; the values need not be distinct.
C5_GaplessPagination ==
  pc = "load" =>
    \A id \in Eligible :
       Cardinality({ j \in DOMAIN all_records[cur] :
                       all_records[cur][j]["id"] = IntV(id) }) = 1

\* C6: as long as no call of any run has raised, the table of an
\* append-mode mapping holds no row that load_append delivered twice.
C6_NoRedelivery ==
  faults = 0 =>
    \A i \in MapIds :
       Mappings[i].mode = "append" =>
         \A j, k \in DOMAIN dest[i] : j # k => dest[i][j] # dest[i][k]

\* C7: a mapping whose run fetched rows and completed has as stored
\* watermark the text of the incremental value of the last fetched row,
\* which is the greatest among the rows handed to the loader; until its
\* load call has returned the stored watermark is the one of the start of
\* the run, and once it differs the load call has returned and the
\* destination holds every row of the batch.
C7_WatermarkIsLastRowAfterLoad ==
  \A i \in MapIds :
     /\ (stage[i] = "ok" /\ all_records[i] # << >>) =>
          /\ wm[NameOf(i)] = Str(Instant(Last(all_records[i])))
          /\ \A r \in Range(Transform(all_records[i])) :
               Instant(r) <= Num(wm[NameOf(i)])
     /\ (i = cur /\ pc \in { "prepare", "paginate", "load", "advance" }) =>
          wm[NameOf(i)] = wm_start[NameOf(i)]
     /\ wm[NameOf(i)] # wm_start[NameOf(i)] =>
          /\ load_outcome[i] = "ok"
          /\ Range(Transform(all_records[i])) \subseteq Range(dest[i])

\* C7 witness: a run that fetched more than one page, with rows of
\* different incremental values, has completed and moved the watermark.
C7_Witness ==
  \E i \in MapIds :
     /\ stage[i] = "ok"
     /\ Len(all_records[i]) > batch_size
     /\ Instant(all_records[i][1]) < Instant(Last(all_records[i]))
     /\ wm[NameOf(i)] # wm_start[NameOf(i)]

\* C8: a mapping whose page fetch raised ended as failed: no load call was
\* made for it, its destination table and its stored watermark are those
\* of the start of the run, and it has no report of a completed run.
C8_FetchFailureRollsBack ==
  \A i \in MapIds :
     stage[i] = "paginate" =>
       /\ load_outcome[i] = "none"
       /\ dest[i] = dest_start[i]
       /\ wm[NameOf(i)] = wm_start[NameOf(i)]
       /\ \A k \in DOMAIN reports : reports[k].mapping_name # NameOf(i)

\* C8 witness: run_once has returned and a page fetch of a mapping raised
\* after an earlier page had been accumulated.
C8_Witness ==
  /\ pc = "returned"
  /\ \E i \in MapIds : stage[i] = "paginate" /\ all_records[i] # << >>

\* C9: after a call of load_upsert that ended because its staging load job
\* or its merge query raised, the staging table of the call does not
\* exist.
C9_StagingDeleted ==
  \A i \in MapIds :
     load_outcome[i] \in { "load_job", "merge" } /\ Mappings[i].mode # "append"
       => StagingName(Mappings[i].bigquery_table) \notin staging

\* The rows of table T that the ON clause matches with row r.
Matches(T, r, primary_keys) ==
  { j \in DOMAIN T : OnClause(T[j], r, primary_keys) }

\* C10: the table of an upsert-mode mapping never holds two rows of the
\* same primary key; after a load_upsert that returned, every row of the
\* batch is in the table exactly once by primary key, with the values of
\* this load; the rows that were in the table before and whose key is not
\* in the batch are still there, and the table grew by the number of batch
\* rows whose key was not in it.
C10_UpsertIdempotent ==
  \A i \in MapIds :
     Mappings[i].mode # "append" =>
       LET pks == Mappings[i].primary_keys
           records == Transform(all_records[i])
       IN /\ \A j, k \in DOMAIN dest[i] :
               j # k => ~OnClause(dest[i][j], dest[i][k], pks)
          /\ load_outcome[i] = "ok" =>
               /\ \A r \in Range(records) :
                     /\ Cardinality(Matches(dest[i], r, pks)) = 1
                     /\ \A j \in Matches(dest[i], r, pks) : dest[i][j] = r
               /\ \A t \in Range(dest_start[i]) :
                     Matches(records, t, pks) = {} => t \in Range(dest[i])
               /\ Len(dest[i]) = Len(dest_start[i]) +
                    Cardinality({ j \in DOMAIN records :
                                    Matches(dest_start[i], records[j], pks) = {} })

\* C10 witness: a load_upsert returned whose batch had a row with the key
\* of a row loaded earlier but another value, and a row with a new key.
C10_Witness ==
  \E i \in MapIds :
     /\ Mappings[i].mode # "append"
     /\ load_outcome[i] = "ok"
     /\ LET pks == Mappings[i].primary_keys
            records == Transform(all_records[i])
        IN /\ \E r \in Range(records), t \in Range(dest_start[i]) :
                OnClause(t, r, pks) /\ t # r
           /\ \E r \in Range(records) : Matches(dest_start[i], r, pks) = {}

\* The errors the source raises that a later attempt can get past: the
\* connection was reset, lost or timed out, or the server was not reached.
Transient == { "OperationalError", "InterfaceError" }

\* C11: a decorated extractor call makes at most five attempts; a call
\* whose attempts have all raised a source error gives up at the fifth;
\* what a call that gave up hands to _run_mapping is the exception of its
\* last attempt, not a value, and _run_mapping fails with it.
C11_RetriesBounded ==
  /\ attempt_number <= StopAfterAttempt
  /\ Len(raised_log) <= StopAfterAttempt
  /\ Len(raised_log) = StopAfterAttempt => call_state = "raised"
  /\ call_state = "raised" =>
       /\ call_result = << "exception", Last(raised_log) >>
       /\ caller_state = "failed"
  /\ call_state = "returned" => call_result = << "value" >>
  /\ caller_state = "on" => call_state = "returned"

\* C11 witness: five attempts hit a transient error and the call raised.
C11_Witness ==
  /\ call_state = "raised"
  /\ Len(raised_log) = StopAfterAttempt
  /\ \A j \in DOMAIN raised_log : raised_log[j] \in Transient

\* C12: an attempt that raised an error which is not transient is the last
\* attempt of its call, and the call has raised.
C12_NonTransientNotRetried ==
  \A j \in DOMAIN raised_log :
     raised_log[j] \notin Transient =>
       /\ j = Len(raised_log)
       /\ call_state = "raised"

\* C13: no call of the reconciliation raises out of _run_mapping: the
\* mapping run goes on to the pagination whatever ensure_table,
\* get_bq_table_schema or add_missing_columns did.
C13_ReconcileNeverFails ==
  rec_failed \notin { "ensure_table", "get_bq_table_schema",
                      "add_missing_columns" }

\* The source columns the destination schema had no field for when
\* _run_mapping was called.
MissingAtStart ==
  { mysql_columns[j][1] : j \in DOMAIN mysql_columns } \ FieldNames(schema_start)

\* The BigQuery type of the source column named c.
CanonicalType(c) ==
  normalize_mysql_type(
    mysql_columns[CHOOSE j \in DOMAIN mysql_columns : mysql_columns[j][1] = c][2])

\* C14: the destination schema differs from the one at the start only with
\* the opt-in set and a source column missing; every field of the start is
\* still there, at its place, with its name, type and mode; and every other
\* field is nullable, named after a source column that was missing, of the
\* type the source type maps to, and there once.
C14_SchemaAdditiveOnOptIn ==
  /\ bq_schema # schema_start =>
       allow_schema_additions /\ MissingAtStart # {}
  /\ Len(bq_schema) >= Len(schema_start)
  /\ \A j \in DOMAIN schema_start : bq_schema[j] = schema_start[j]
  /\ \A j \in DOMAIN bq_schema :
       j > Len(schema_start) =>
         /\ bq_schema[j].name \in MissingAtStart
         /\ bq_schema[j].mode = "NULLABLE"
         /\ bq_schema[j].field_type = CanonicalType(bq_schema[j].name)
         /\ \A k \in DOMAIN bq_schema : bq_schema[k].name = bq_schema[j].name => k = j

\* C14 witness: the schema gained the missing columns while a field whose
\* type differs from the source's and a field the source does not have
\* were both kept.
C14_Witness ==
  /\ rec_pc = "load"
  /\ Len(bq_schema) > Len(schema_start)
  /\ diff.type_mismatches # << >>
  /\ \E j \in DOMAIN schema_start :
       schema_start[j].name \notin { mysql_columns[k][1] : k \in DOMAIN mysql_columns }

\* C15: without the opt-in, no row passed to the load call has a key for a
\* column the difference reported missing.
C15_RowsAlignedToDestination ==
  (rec_pc = "loaded" /\ ~allow_schema_additions) =>
    \A r \in Range(handed), j \in DOMAIN diff.missing :
       diff.missing[j][1] \notin DOMAIN r

\* C16: with an empty primary-key list no load_upsert execution creates a
\* staging table, loads or merges a row, or returns having been given
\* rows: no staging table exists, the destination table is as it was, and
\* an execution with rows has not returned.
C16_EmptyKeysRejected ==
  upsert_keys = << >> =>
    /\ DOMAIN temp_tables = {}
    /\ target = target_start
    /\ \A e \in Execs : ex_rows[e] # << >> => ex_pc[e] # "returned"

\* Execution e is between the creation of its staging table and its end.
InFlight(e) == ex_pc[e] \in { "create_table", "load_job", "merge", "cleanup" }

\* C17: two load_upsert executions on the same destination table that are
\* in flight together have staging tables of different names, and the
\* staging rows an execution merged are its own rows argument.
C17_DistinctStagingTables ==
  /\ \A e, f \in Execs :
       (e # f /\ InFlight(e) /\ InFlight(f)) => TempOf(e) # TempOf(f)
  /\ \A e \in Execs :
       ex_pc[e] \in { "cleanup", "returned" } /\ ex_rows[e] # << >> =>
         merged[e] = ex_rows[e]

\* Both calls of set_last_sync have saved.
BothSaved == \A w \in Writers : st_pc[w] = "saved"

\* Caller w saved before the other caller loaded.
SavedBeforeLoadOf(w, x) ==
  \E j, k \in DOMAIN st_events :
     j < k /\ st_events[j] = << w, "save" >> /\ st_events[k] = << x, "load" >>

\* One call ran to its end before the other began.
Serialized ==
  \E w, x \in Writers : w # x /\ SavedBeforeLoadOf(w, x)

\* Both calls loaded the document before either saved it.
Interleaved ==
  /\ Len(st_events) >= 2
  /\ st_events[1][2] = "load"
  /\ st_events[2][2] = "load"

\* C18: two set_last_sync calls for different mappings either ran one
\* after the other or both loaded before either saved; after serialized
\* calls the document has both new watermarks; after interleaved calls it
\* has the one of the call that saved last and, for the other mapping,
\* the entry of before the calls.
C18_LostUpdateOnlyWhenInterleaved ==
  BothSaved =>
    /\ Serialized # Interleaved
    /\ Serialized => \A w \in Writers : wm[WriterName(w)] = st_value[w]
    /\ Interleaved =>
         \A w, x \in Writers :
            (w # x /\ Last(st_events) = << x, "save" >>) =>
               /\ wm[WriterName(x)] = st_value[x]
               /\ wm[WriterName(w)] = wm_start[WriterName(w)]

\* C18 witness: both calls loaded before either saved, both have saved,
\* and the document lacks the new watermark of one of them.
C18_Witness ==
  /\ BothSaved
  /\ Interleaved
  /\ \E w \in Writers : wm[WriterName(w)] # st_value[w]

\* ceil(n / l).
CeilDiv(n, l) == (n + l - 1) \div l

\* C19 as claimed: a page with fewer rows than the page size, or with no
\* row, is the last fetch of its run.
C19_StopsAtShortPage ==
  \A i \in MapIds :
     \A j \in DOMAIN pages[i] :
        pages[i][j] < batch_size => j = Len(pages[i])

\* C19 as amended: only a page with no row ends the loop.  An empty page
\* is the last fetch of its run; a run that is past its pagination loop
\* fetched an empty page last; and the loop that has ended after reading R
\* rows with page size L made ceil(R / L) + 1 fetches.
C19_StopsAtEmptyPage ==
  \A i \in MapIds :
     /\ \A j \in DOMAIN pages[i] :
           /\ pages[i][j] <= batch_size
           /\ pages[i][j] = 0 => j = Len(pages[i])
     /\ ((i = cur /\ pc \in { "load", "advance" })
           \/ stage[i] \in { "load", "advance", "ok" }) =>
          /\ pages[i] # << >>
          /\ Last(pages[i]) = 0
          /\ Len(pages[i]) = CeilDiv(Len(all_records[i]), batch_size) + 1

\* C19 witness: the loop has ended after a page shorter than the page
\* size, with a number of eligible rows that is no multiple of the page
\* size.
C19_Witness ==
  /\ pc = "load"
  /\ Cardinality(Eligible) % batch_size # 0
  /\ \E j \in DOMAIN pages[cur] :
       pages[cur][j] > 0 /\ pages[cur][j] < batch_size /\ j < Len(pages[cur])

\* The source rows whose incremental value lies in the closed window of
\* the last backfill call.
InWindow ==
  { id \in DOMAIN bf.source :
      /\ bf.source[id] >= Num(bf.start)
      /\ bf.end # NoneV => bf.source[id] <= Num(bf.end[2]) }

\* C20: a backfill call that reached its load call handed to the loader
\* every source row of its closed window [start, end], each exactly once.
C20_BackfillClosedWindow ==
  (bf.result \in { "returned", "load_raised" } /\ bf.end # NoneV) =>
    \A id \in InWindow :
       Cardinality({ j \in DOMAIN bf.records :
                       bf.records[j]["id"] = IntV(id) }) = 1

\* C21: no backfill call, whatever its window and however it ended,
\* changes the watermark document: every mapping's stored watermark is the
\* one of before the calls.
C21_BackfillLeavesWatermarks ==
  \A n \in Names : wm[n] = wm_start[n]

\* C21 witness: a backfill of a mapping that has a stored watermark handed
\* the loader a row beyond that watermark, and its load returned.
C21_Witness ==
  /\ bf.result = "returned"
  /\ bf.mapping_name \in Names
  /\ wm_start[bf.mapping_name] # NoValue
  /\ \E j \in DOMAIN bf.records :
       bf.records[j][incremental_column][2] > Num(wm_start[bf.mapping_name])

\* C22: a step of a run changes the stored watermark of a mapping only
\* when that mapping is the one being run, the step is the watermark
\* write at the end of its run, and the run fetched rows; the entry of
\* every other mapping stays as it is, and a run that raised or fetched
\* no row writes no entry.
C22_OnlyOwnEntryChanges ==
  [][\A i \in MapIds :
        wm'[NameOf(i)] # wm[NameOf(i)] =>
          /\ i = cur
          /\ pc = "advance"
          /\ all_records[i] # << >>
          /\ stage'[i] = "ok"]_vars

\* C22 witness: in a later run the first mapping fetched rows and moved
\* its watermark, while the entry that an earlier run stored for the
\* second mapping is as it was when the run started; the second mapping
\* has then run and raised.
C22_Witness ==
  /\ pc = "returned"
  /\ stage[1] = "ok"
  /\ wm[NameOf(1)] # wm_start[NameOf(1)]
  /\ wm_start[NameOf(1)] # NoValue
  /\ Failed(2)
  /\ wm[NameOf(2)] # NoValue
  /\ wm[NameOf(2)] = wm_start[NameOf(2)]

====
